---- MODULE Spec2Model ----
(***************************************************************************)
(* Proof-of-work blockchain server: Block, Blockchain (genesis, addBlock,   *)
(* proofOfWork, validateChain), the external validateChain over uploaded    *)
(* records, parseUpChain, the HTTP handlers that read or extend the live    *)
(* chain, and the browser views that draw a chain with its report.          *)
(*                                                                          *)
(* Strings are sequences of one-character strings.  JavaScript values are   *)
(* records [t, n, s, kv] with a type tag t.  SHA-256 is modelled as an      *)
(* ideal hash: the digest of a string is a run of leading '0' digits whose  *)
(* length is a fixed function of the string's checksum, followed by the     *)
(* digit 'f' and the string itself, so distinct preimages have distinct     *)
(* digests (collision resistance is assumed, not checked).                  *)
(***************************************************************************)
EXTENDS Integers, Sequences, FiniteSets, TLC

\* ------------------------------------------------------------------ bounds
\* longest live chain explored (genesis included)
MaxChain == 3
\* cap on the nonce reached by a nonce search
MaxNonce == 8

\* the difficulty of the server's chain and the constructor's default
DefaultDifficulty == 3

\* ----------------------------------------------------------------- strings
Alphabet ==
  << "0", "1", "2", "3", "4", "5", "6", "7", "8", "9",
     "|", "\"", "{", "}", ":", ",", " ", "-", "[", "]",
     "a", "b", "c", "d", "e", "f", "g", "h", "i", "j", "k", "l", "m",
     "n", "o", "p", "q", "r", "s", "t", "u", "v", "w", "x", "y", "z",
     "B", "G", "N", "O", "T" >>

Chars == { Alphabet[i] : i \in DOMAIN Alphabet }

\* character code: the digits have consecutive codes 0..9
Code == [ c \in Chars |-> (CHOOSE i \in DOMAIN Alphabet : Alphabet[i] = c) - 1 ]

Digits == << "0", "1", "2", "3", "4", "5", "6", "7", "8", "9" >>

RECURSIVE NatToStr(_)
NatToStr(n) ==
  IF n < 10 THEN << Digits[n + 1] >>
  ELSE NatToStr(n \div 10) \o << Digits[(n % 10) + 1] >>

\* decimal rendering of an integer, as String(n) renders it
IntToStr(n) == IF n < 0 THEN << "-" >> \o NatToStr(0 - n) ELSE NatToStr(n)

\* '0'.repeat(d)
RECURSIVE Repeat0(_)
Repeat0(d) == IF d <= 0 THEN << >> ELSE << "0" >> \o Repeat0(d - 1)

\* String.prototype.startsWith
StartsWith(s, prefix) ==
  /\ Len(prefix) <= Len(s)
  /\ \A i \in 1..Len(prefix) : s[i] = prefix[i]

IsDigitStr(s) == Len(s) > 0 /\ \A i \in 1..Len(s) : s[i] \in { Digits[j] : j \in 1..10 }

RECURSIVE StrToNat(_)
StrToNat(s) ==
  IF Len(s) = 0 THEN 0
  ELSE 10 * StrToNat(SubSeq(s, 1, Len(s) - 1)) + Code[s[Len(s)]]

\* ------------------------------------------------------- JavaScript values
Num(n) == [ t |-> "num", n |-> n, s |-> << >>, kv |-> << >> ]
Str(s) == [ t |-> "str", n |-> 0, s |-> s, kv |-> << >> ]
Obj(kv) == [ t |-> "obj", n |-> 0, s |-> << >>, kv |-> kv ]
Null == [ t |-> "null", n |-> 0, s |-> << >>, kv |-> << >> ]
Undefined == [ t |-> "undef", n |-> 0, s |-> << >>, kv |-> << >> ]
NaN == [ t |-> "nan", n |-> 0, s |-> << >>, kv |-> << >> ]

\* a ?? b
Coalesce(a, b) == IF a.t \in { "null", "undef" } THEN b ELSE a

\* String(v) and `${v}`
JsString(v) ==
  CASE v.t = "num" -> IntToStr(v.n)
    [] v.t = "str" -> v.s
    [] v.t = "null" -> << "n", "u", "l", "l" >>
    [] v.t = "undef" -> << "u", "n", "d", "e", "f", "i", "n", "e", "d" >>
    [] v.t = "nan" -> << "N", "a", "N" >>
    [] OTHER -> << "[", "o", "b", "j", "e", "c", "t", " ", "O", "b", "j", "e", "c", "t", "]" >>

\* Number(v)
ToNumber(v) ==
  CASE v.t = "num" -> v
    [] v.t = "str" -> IF Len(v.s) = 0 THEN Num(0)
                      ELSE IF IsDigitStr(v.s) THEN Num(StrToNat(v.s)) ELSE NaN
    [] v.t = "null" -> Num(0)
    [] OTHER -> NaN

KeyToString == << "t", "o", "S", "t", "r", "i", "n", "g" >>

\* String(v) and Number(v) throw a TypeError: v is an object parsed from a
\* document with a property of its own named toString, which is not callable,
\* while the inherited valueOf returns the object itself
ToPrimitiveThrows(v) ==
  v.t = "obj" /\ \E j \in 1..Len(v.kv) : v.kv[j][1] = KeyToString

\* a === b on primitives: NaN is not equal to itself
StrictEq(a, b) == a.t # "nan" /\ a = b

\* a + 1 on a number
PlusOne(v) == IF v.t = "num" THEN Num(v.n + 1) ELSE NaN

\* JSON.stringify(v); the strings of the model hold no character that
\* JSON escapes.  A property whose value is undefined is left out, NaN is
\* rendered as null, and stringify of undefined is undefined.
RECURSIVE JsonText(_)
RECURSIVE JsonProps(_, _)
JsonProps(kv, first) ==
  IF Len(kv) = 0 THEN << >>
  ELSE IF kv[1][2].t = "undef" THEN JsonProps(Tail(kv), first)
  ELSE (IF first THEN << >> ELSE << "," >>)
       \o << "\"" >> \o kv[1][1] \o << "\"", ":" >> \o JsonText(kv[1][2])
       \o JsonProps(Tail(kv), FALSE)
JsonText(v) ==
  CASE v.t = "num" -> IntToStr(v.n)
    [] v.t = "str" -> << "\"" >> \o v.s \o << "\"" >>
    [] v.t = "obj" -> << "{" >> \o JsonProps(v.kv, TRUE) \o << "}" >>
    [] OTHER -> << "n", "u", "l", "l" >>

JSONstringify(v) == IF v.t = "undef" THEN Undefined ELSE Str(JsonText(v))

\* ------------------------------------------------------------------- hash
\* sum of the character codes of s[lo..hi], modulo 8, eight characters at
\* a time
RECURSIVE ChecksumRange(_, _, _)
ChecksumRange(s, lo, hi) ==
  IF lo > hi THEN 0
  ELSE IF hi - lo >= 7
    THEN (Code[s[lo]] + Code[s[lo + 1]] + Code[s[lo + 2]] + Code[s[lo + 3]]
          + Code[s[lo + 4]] + Code[s[lo + 5]] + Code[s[lo + 6]] + Code[s[lo + 7]]
          + ChecksumRange(s, lo + 8, hi)) % 8
    ELSE (Code[s[lo]] + ChecksumRange(s, lo + 1, hi)) % 8

\* (the string is bound by the set constructor so that it is built once)
Checksum(s) == CHOOSE n \in { ChecksumRange(x, 1, Len(x)) : x \in { s } } : TRUE

\* number of leading '0' digits of the digest of s
LeadZeros(s) ==
  LET c == Checksum(s)
  IN IF c = 0 THEN 3 ELSE IF c = 4 THEN 2 ELSE IF c % 2 = 0 THEN 1 ELSE 0

\* crypto.createHash('sha256').update(s).digest('hex')
Sha256Hex(s) == Repeat0(LeadZeros(s)) \o << "f" >> \o s

\* ------------------------------------------------------------------ Block
\* computeHash leaving the timestamp out of the hashed string
computeHashNoTimestamp(b) ==
  LET data == JSONstringify(b.data)
      str == JsString(b.index) \o << "|" >>
             \o JsString(data) \o << "|" >> \o JsString(b.previousHash) \o << "|" >>
             \o JsString(b.nonce)
  IN Str(Sha256Hex(str))

\* Block.computeHash: never reads the hash field
computeHash(b) ==
  LET data == JSONstringify(b.data)
      str == JsString(b.index) \o << "|" >> \o JsString(b.timestamp) \o << "|" >>
             \o JsString(data) \o << "|" >> \o JsString(b.previousHash) \o << "|" >>
             \o JsString(b.nonce)
  IN Str(Sha256Hex(str))

\* new Block(index, timestamp, data, previousHash)
NewBlock(index, timestamp, data, previousHash) ==
  LET b == [ index |-> index, timestamp |-> timestamp, data |-> data,
             previousHash |-> previousHash, nonce |-> Num(0), hash |-> Undefined ]
  IN [ b EXCEPT !.hash = computeHash(b) ]

\* '0'.repeat(difficulty)
targetPrefix(d) == Repeat0(d)

\* PowHit testing the hash the block holds instead of the one just computed
PowHitStale(b, d) == StartsWith(b.hash.s, targetPrefix(d))

\* the test of the proof-of-work loop on the freshly computed hash
PowHit(b, d) == StartsWith(computeHash(b).s, targetPrefix(d))

\* one pass of the proof-of-work loop that does not return
PowMiss(b) == [ b EXCEPT !.hash = computeHash(b), !.nonce = PlusOne(b.nonce) ]

\* proofOfWork returning without storing the hash that passed the test
RECURSIVE proofOfWorkStaleHash(_, _)
proofOfWorkStaleHash(b, d) ==
  IF PowHit(b, d) THEN b
  ELSE proofOfWorkStaleHash(PowMiss(b), d)

\* Blockchain.proofOfWork run to its return: the block as it is left
RECURSIVE proofOfWork(_, _)
proofOfWork(b, d) ==
  IF PowHit(b, d) THEN [ b EXCEPT !.hash = computeHash(b) ]
  ELSE proofOfWork(PowMiss(b), d)

GenesisData ==
  Obj(<< << << "m", "e", "s", "s", "a", "g", "e" >>,
            Str(<< "G", "e", "n", "e", "s", "i", "s", " ", "B", "l", "o", "c", "k" >>) >> >>)

\* Blockchain.creatGenBlock at the time ts
creatGenBlock(ts, d) == proofOfWork(NewBlock(Num(0), ts, GenesisData, Str(<< "0" >>)), d)

\* Blockchain.getLastBlock
getLastBlock(c) == c[Len(c)]

\* ------------------------------------------------ Blockchain.validateChain
EmptyReport == [ isValid |-> TRUE, invalidBlockIndices |-> << >>, details |-> << >> ]

\* BlockChecks comparing the index with the previous index, not its successor
BlockChecksNoInc(c, d, i) ==
  LET current == c[i]
      recomputedHash == computeHash(current)
  IN [ isHashValid |-> StrictEq(recomputedHash, current.hash),
       isPowValid |-> StartsWith(current.hash.s, targetPrefix(d)),
       isIndexValid |-> IF i = 1 THEN StrictEq(current.index, Num(0))
                        ELSE StrictEq(current.index, c[i - 1].index),
       isPrevValid |-> IF i = 1 THEN StrictEq(current.previousHash, Str(<< "0" >>))
                       ELSE StrictEq(current.previousHash, computeHash(c[i - 1])) ]

\* BlockChecks comparing previousHash with the hash the previous block stores
BlockChecksStoredPrev(c, d, i) ==
  LET current == c[i]
      recomputedHash == computeHash(current)
  IN [ isHashValid |-> StrictEq(recomputedHash, current.hash),
       isPowValid |-> StartsWith(current.hash.s, targetPrefix(d)),
       isIndexValid |-> IF i = 1 THEN StrictEq(current.index, Num(0))
                        ELSE StrictEq(current.index, PlusOne(c[i - 1].index)),
       isPrevValid |-> IF i = 1 THEN StrictEq(current.previousHash, Str(<< "0" >>))
                       ELSE StrictEq(current.previousHash, c[i - 1].hash) ]

\* the checks of one pass of the loop of Blockchain.validateChain, at the
\* position i (counted from 1) of the chain c
BlockChecks(c, d, i) ==
  LET current == c[i]
      recomputedHash == computeHash(current)
  IN [ isHashValid |-> StrictEq(recomputedHash, current.hash),
       isPowValid |-> StartsWith(current.hash.s, targetPrefix(d)),
       isIndexValid |-> IF i = 1 THEN StrictEq(current.index, Num(0))
                        ELSE StrictEq(current.index, PlusOne(c[i - 1].index)),
       isPrevValid |-> IF i = 1 THEN StrictEq(current.previousHash, Str(<< "0" >>))
                       ELSE StrictEq(current.previousHash, computeHash(c[i - 1])) ]

\* the start of the loop: the empty report and the cascade flag
StartPass == [ result |-> EmptyReport, cascadeInvalid |-> FALSE ]

\* BlockPass recording an index only for a block that is not cascaded
BlockPassFirstOnly(c, d, i, st) ==
  LET k == BlockChecks(c, d, i)
      blockValid == ~st.cascadeInvalid /\ k.isHashValid /\ k.isPowValid
                    /\ k.isPrevValid /\ k.isIndexValid
      detail == [ index |-> c[i].index, isHashValid |-> k.isHashValid,
                  isPowValid |-> k.isPowValid, isPrevValid |-> k.isPrevValid,
                  isIndexValid |-> k.isIndexValid, blockValid |-> blockValid,
                  cascaded |-> st.cascadeInvalid ]
      pushed == [ st.result EXCEPT !.details = Append(@, detail) ]
  IN IF blockValid THEN [ result |-> pushed, cascadeInvalid |-> st.cascadeInvalid ]
     ELSE [ result |-> [ pushed EXCEPT !.isValid = FALSE,
                                       !.invalidBlockIndices =
                                          IF st.cascadeInvalid THEN @ ELSE Append(@, c[i].index) ],
            cascadeInvalid |-> TRUE ]

\* BlockPass leaving the cascade flag out of blockValid
BlockPassNoCascade(c, d, i, st) ==
  LET k == BlockChecks(c, d, i)
      blockValid == k.isHashValid /\ k.isPowValid /\ k.isPrevValid /\ k.isIndexValid
      detail == [ index |-> c[i].index, isHashValid |-> k.isHashValid,
                  isPowValid |-> k.isPowValid, isPrevValid |-> k.isPrevValid,
                  isIndexValid |-> k.isIndexValid, blockValid |-> blockValid,
                  cascaded |-> st.cascadeInvalid ]
      pushed == [ st.result EXCEPT !.details = Append(@, detail) ]
  IN IF blockValid THEN [ result |-> pushed, cascadeInvalid |-> st.cascadeInvalid ]
     ELSE [ result |-> [ pushed EXCEPT !.isValid = FALSE,
                                       !.invalidBlockIndices = Append(@, c[i].index) ],
            cascadeInvalid |-> TRUE ]

\* BlockPass setting the cascade flag from the block's own checks
BlockPassOwnCascade(c, d, i, st) ==
  LET k == BlockChecks(c, d, i)
      blockValid == ~st.cascadeInvalid /\ k.isHashValid /\ k.isPowValid
                    /\ k.isPrevValid /\ k.isIndexValid
      detail == [ index |-> c[i].index, isHashValid |-> k.isHashValid,
                  isPowValid |-> k.isPowValid, isPrevValid |-> k.isPrevValid,
                  isIndexValid |-> k.isIndexValid, blockValid |-> blockValid,
                  cascaded |-> st.cascadeInvalid ]
      pushed == [ st.result EXCEPT !.details = Append(@, detail) ]
  IN IF blockValid THEN [ result |-> pushed, cascadeInvalid |-> st.cascadeInvalid ]
     ELSE [ result |-> [ pushed EXCEPT !.isValid = FALSE,
                                       !.invalidBlockIndices = Append(@, c[i].index) ],
            cascadeInvalid |-> ~(k.isHashValid /\ k.isPowValid
                                 /\ k.isPrevValid /\ k.isIndexValid) ]

\* one pass of the loop of Blockchain.validateChain at the position i: the
\* report and the cascade flag it leaves, given those (st) it found
BlockPass(c, d, i, st) ==
  LET k == BlockChecks(c, d, i)
      blockValid == ~st.cascadeInvalid /\ k.isHashValid /\ k.isPowValid
                    /\ k.isPrevValid /\ k.isIndexValid
      detail == [ index |-> c[i].index, isHashValid |-> k.isHashValid,
                  isPowValid |-> k.isPowValid, isPrevValid |-> k.isPrevValid,
                  isIndexValid |-> k.isIndexValid, blockValid |-> blockValid,
                  cascaded |-> st.cascadeInvalid ]
      pushed == [ st.result EXCEPT !.details = Append(@, detail) ]
  IN IF blockValid THEN [ result |-> pushed, cascadeInvalid |-> st.cascadeInvalid ]
     ELSE [ result |-> [ pushed EXCEPT !.isValid = FALSE,
                                       !.invalidBlockIndices = Append(@, c[i].index) ],
            cascadeInvalid |-> TRUE ]

\* the loop of Blockchain.validateChain from the position i on (what a pass
\* leaves is bound by the set constructor so that it is computed once)
RECURSIVE ValidateFrom(_, _, _, _)
ValidateFrom(c, d, i, st) ==
  IF i > Len(c) THEN st.result
  ELSE CHOOSE r \in { ValidateFrom(c, d, i + 1, nst) : nst \in { BlockPass(c, d, i, st) } } : TRUE

\* Blockchain.validateChain
Blockchain_validateChain(c, d) == ValidateFrom(c, d, 1, StartPass)

\* ------------------------------------------------- validateChain (uploads)
\* An uploaded record is [isNull, props]: a null entry of the array, or an
\* object whose properties are the function props.

\* raw.key on the record left by `chain[i] || {}`, and chain[i]?.key
Prop(raw, key) ==
  IF raw.isNull THEN Undefined
  ELSE IF key \in DOMAIN raw.props THEN raw.props[key] ELSE Undefined

\* raw.k1 ?? raw.k2 ?? ... over the keys in the order given
RECURSIVE FirstOf(_, _)
FirstOf(raw, keys) ==
  IF Len(keys) = 1 THEN Prop(raw, keys[1])
  ELSE Coalesce(Prop(raw, keys[1]), FirstOf(raw, Tail(keys)))

\* a Block built by validateChain, with its nonce assigned afterwards
TempBlock(index, timestamp, data, previousHash, nonce) ==
  [ NewBlock(index, timestamp, data, previousHash) EXCEPT !.nonce = nonce ]

\* the values validateChain reads from the record at position i
Coerced(up, i) ==
  LET raw == up[i]
      prevHashRaw == FirstOf(raw, << "previousHash", "prevHash", "prev_hash", "previous_hash" >>)
      hashRaw == FirstOf(raw, << "hash", "Hash", "HASH" >>)
      dataRaw == FirstOf(raw, << "data", "Data" >>)
      indexRaw == FirstOf(raw, << "index", "Index" >>)
      nonceRaw == FirstOf(raw, << "nonce", "Nonce" >>)
      timestampRaw == FirstOf(raw, << "timestamp", "Timestamp", "time" >>)
  IN [ bIndex |-> ToNumber(indexRaw),
       prevHashStr |-> Str(JsString(Coalesce(prevHashRaw, Str(<< >>)))),
       hashStr |-> Str(JsString(Coalesce(hashRaw, Str(<< >>)))),
       timestampStr |-> Str(JsString(Coalesce(timestampRaw, Str(<< >>)))),
       nonceNum |-> ToNumber(Coalesce(nonceRaw, Num(0))),
       dataRaw |-> dataRaw ]

\* PrevTemp without the assignment of the nonce
PrevTempNoNonce(up, i) ==
  LET prev == up[i - 1]
  IN NewBlock(ToNumber(Prop(prev, "index")),
              Str(JsString(Coalesce(Prop(prev, "timestamp"), Str(<< >>)))),
              Prop(prev, "data"),
              Str(JsString(Coalesce(Prop(prev, "previousHash"), Str(<< >>)))))

\* the Block validateChain rebuilds from the record before position i
PrevTemp(up, i) ==
  LET prev == up[i - 1]
  IN TempBlock(ToNumber(Prop(prev, "index")),
               Str(JsString(Coalesce(Prop(prev, "timestamp"), Str(<< >>)))),
               Prop(prev, "data"),
               Str(JsString(Coalesce(Prop(prev, "previousHash"), Str(<< >>)))),
               ToNumber(Coalesce(Prop(prev, "nonce"), Num(0))))

\* a conversion of the pass at the position i of validateChain throws
RecordThrows(up, i) ==
  LET raw == up[i]
      current == { FirstOf(raw, << "previousHash", "prevHash", "prev_hash", "previous_hash" >>),
                   FirstOf(raw, << "hash", "Hash", "HASH" >>),
                   FirstOf(raw, << "index", "Index" >>),
                   FirstOf(raw, << "nonce", "Nonce" >>),
                   FirstOf(raw, << "timestamp", "Timestamp", "time" >>) }
      previous == IF i = 1 THEN { }
                  ELSE { Prop(up[i - 1], f) : f \in { "index", "timestamp", "previousHash", "nonce" } }
  IN \E v \in current \cup previous : ToPrimitiveThrows(v)

\* validateChain(chain, difficulty) throws instead of returning
validateChainThrows(up) == \E i \in 1..Len(up) : RecordThrows(up, i)

\* RecordChecks testing the recomputed hash for the zeros, not the stored one
RecordChecksPowOnRecomputed(up, d, c, i) ==
  LET v == Coerced(up, i)
      temp == TempBlock(v.bIndex, v.timestampStr, v.dataRaw, v.prevHashStr, v.nonceNum)
      reHash == computeHash(temp)
      prevIndex == IF i = 1 THEN Num(-1) ELSE ToNumber(Prop(up[i - 1], "index"))
  IN [ bIndex |-> v.bIndex,
       isHashValid |-> StrictEq(reHash, v.hashStr),
       isPowValid |-> StartsWith(reHash.s, targetPrefix(d)),
       isIndexValid |-> IF i = 1 THEN StrictEq(v.bIndex, Num(0))
                        ELSE StrictEq(v.bIndex, PlusOne(prevIndex)),
       isPrevValid |-> IF i = 1 THEN StrictEq(v.prevHashStr, Str(<< "0" >>))
                       ELSE StrictEq(v.prevHashStr, computeHash(PrevTemp(up, i))),
       matchesServerGenesis |-> IF i # 1 \/ Len(c) = 0 THEN TRUE
                                ELSE StrictEq(v.hashStr, c[1].hash) ]

\* RecordChecks comparing the hash with the server's genesis at every position
RecordChecksEveryPosition(up, d, c, i) ==
  LET v == Coerced(up, i)
      temp == TempBlock(v.bIndex, v.timestampStr, v.dataRaw, v.prevHashStr, v.nonceNum)
      reHash == computeHash(temp)
      prevIndex == IF i = 1 THEN Num(-1) ELSE ToNumber(Prop(up[i - 1], "index"))
  IN [ bIndex |-> v.bIndex,
       isHashValid |-> StrictEq(reHash, v.hashStr),
       isPowValid |-> StartsWith(v.hashStr.s, targetPrefix(d)),
       isIndexValid |-> IF i = 1 THEN StrictEq(v.bIndex, Num(0))
                        ELSE StrictEq(v.bIndex, PlusOne(prevIndex)),
       isPrevValid |-> IF i = 1 THEN StrictEq(v.prevHashStr, Str(<< "0" >>))
                       ELSE StrictEq(v.prevHashStr, computeHash(PrevTemp(up, i))),
       matchesServerGenesis |-> IF Len(c) = 0 THEN TRUE
                                ELSE StrictEq(v.hashStr, c[1].hash) ]

\* the checks of one pass of the loop of validateChain at the position i
\* (counted from 1) of the upload up, against the live chain c
RecordChecks(up, d, c, i) ==
  LET v == Coerced(up, i)
      temp == TempBlock(v.bIndex, v.timestampStr, v.dataRaw, v.prevHashStr, v.nonceNum)
      reHash == computeHash(temp)
      prevIndex == IF i = 1 THEN Num(-1) ELSE ToNumber(Prop(up[i - 1], "index"))
  IN [ bIndex |-> v.bIndex,
       isHashValid |-> StrictEq(reHash, v.hashStr),
       isPowValid |-> StartsWith(v.hashStr.s, targetPrefix(d)),
       isIndexValid |-> IF i = 1 THEN StrictEq(v.bIndex, Num(0))
                        ELSE StrictEq(v.bIndex, PlusOne(prevIndex)),
       isPrevValid |-> IF i = 1 THEN StrictEq(v.prevHashStr, Str(<< "0" >>))
                       ELSE StrictEq(v.prevHashStr, computeHash(PrevTemp(up, i))),
       matchesServerGenesis |-> IF i # 1 \/ Len(c) = 0 THEN TRUE
                                ELSE StrictEq(v.hashStr, c[1].hash) ]

\* RecordPass leaving isValid as it was when a block is invalid
RecordPassKeepValid(up, d, c, i, st) ==
  LET k == RecordChecks(up, d, c, i)
      blockValid == ~st.cascadeInvalid /\ k.isHashValid /\ k.isPowValid
                    /\ k.isPrevValid /\ k.isIndexValid /\ k.matchesServerGenesis
      detail == [ index |-> k.bIndex, isHashValid |-> k.isHashValid,
                  isPowValid |-> k.isPowValid, isPrevValid |-> k.isPrevValid,
                  isIndexValid |-> k.isIndexValid,
                  matchesServerGenesis |-> k.matchesServerGenesis,
                  blockValid |-> blockValid, cascaded |-> st.cascadeInvalid ]
      pushed == [ st.result EXCEPT !.details = Append(@, detail) ]
  IN IF blockValid THEN [ result |-> pushed, cascadeInvalid |-> st.cascadeInvalid ]
     ELSE [ result |-> [ pushed EXCEPT !.invalidBlockIndices = Append(@, k.bIndex) ],
            cascadeInvalid |-> TRUE ]

\* RecordPass in which a block invalid only by matchesServerGenesis does not
\* start the cascade
RecordPassNoGenesisCascade(up, d, c, i, st) ==
  LET k == RecordChecks(up, d, c, i)
      ownValid == ~st.cascadeInvalid /\ k.isHashValid /\ k.isPowValid
                  /\ k.isPrevValid /\ k.isIndexValid
      blockValid == ownValid /\ k.matchesServerGenesis
      detail == [ index |-> k.bIndex, isHashValid |-> k.isHashValid,
                  isPowValid |-> k.isPowValid, isPrevValid |-> k.isPrevValid,
                  isIndexValid |-> k.isIndexValid,
                  matchesServerGenesis |-> k.matchesServerGenesis,
                  blockValid |-> blockValid, cascaded |-> st.cascadeInvalid ]
      pushed == [ st.result EXCEPT !.details = Append(@, detail) ]
  IN IF blockValid THEN [ result |-> pushed, cascadeInvalid |-> st.cascadeInvalid ]
     ELSE [ result |-> [ pushed EXCEPT !.isValid = FALSE,
                                       !.invalidBlockIndices = Append(@, k.bIndex) ],
            cascadeInvalid |-> ~ownValid ]

\* one pass of the loop of validateChain at the position i
RecordPass(up, d, c, i, st) ==
  LET k == RecordChecks(up, d, c, i)
      blockValid == ~st.cascadeInvalid /\ k.isHashValid /\ k.isPowValid
                    /\ k.isPrevValid /\ k.isIndexValid /\ k.matchesServerGenesis
      detail == [ index |-> k.bIndex, isHashValid |-> k.isHashValid,
                  isPowValid |-> k.isPowValid, isPrevValid |-> k.isPrevValid,
                  isIndexValid |-> k.isIndexValid,
                  matchesServerGenesis |-> k.matchesServerGenesis,
                  blockValid |-> blockValid, cascaded |-> st.cascadeInvalid ]
      pushed == [ st.result EXCEPT !.details = Append(@, detail) ]
  IN IF blockValid THEN [ result |-> pushed, cascadeInvalid |-> st.cascadeInvalid ]
     ELSE [ result |-> [ pushed EXCEPT !.isValid = FALSE,
                                       !.invalidBlockIndices = Append(@, k.bIndex) ],
            cascadeInvalid |-> TRUE ]

\* the loop of validateChain from the position i on
RECURSIVE ValidateUploadFrom(_, _, _, _, _)
ValidateUploadFrom(up, d, c, i, st) ==
  IF i > Len(up) THEN st.result
  ELSE ValidateUploadFrom(up, d, c, i + 1, RecordPass(up, d, c, i, st))

\* validateChain(chain, difficulty), run by a server whose live chain is c
validateChain(up, d, c) == ValidateUploadFrom(up, d, c, 1, StartPass)

\* ------------------------------------------------------------------ inputs
\* value of new Date().toISOString() while requests are served
Timestamps == { Str(<< "T", "2" >>) }

\* value of new Date().toISOString() when the server starts
StartTimes == { Str(<< "T", "1" >>) }

\* values of Math.random().toString(36).slice(2, 10)
Rands == { Str(<< "r" >>) }

KeyNote == << "n", "o", "t", "e" >>

\* values of req.body?.data of POST /api/mine; Undefined is a body without data
BodyData == { Undefined, Str(<< "x" >>), Num(5) }

\* difficulties a Blockchain is constructed with
Difficulties == { 0, DefaultDifficulty }

Fields == { "index", "timestamp", "data", "previousHash", "nonce", "hash" }

\* ------------------------------------------------------------------- state
VARIABLES
  difficulty,   \* blockchain.difficulty
  chain,        \* blockchain.chain
  pc,           \* "idle", or "pow" while POST /api/mine searches a nonce
  newBlock,     \* the block addBlock is mining
  response,     \* the response being sent, NoResponse between requests
  tamperLog     \* the outside change made, if any: position, field, chain before it

vars == << difficulty, chain, pc, newBlock, response, tamperLog >>

NoBlock ==
  [ index |-> Undefined, timestamp |-> Undefined, data |-> Undefined,
    previousHash |-> Undefined, nonce |-> Undefined, hash |-> Undefined ]

NoResponse == [ kind |-> "none" ]

NoTamper == [ pos |-> 0, field |-> "", before |-> << >> ]

\* const blockchain = new Blockchain({ difficulty })
Init ==
  /\ difficulty \in Difficulties
  /\ \E ts \in StartTimes : chain = << creatGenBlock(ts, difficulty) >>
  /\ pc = "idle"
  /\ newBlock = NoBlock
  /\ response = NoResponse
  /\ tamperLog = NoTamper

\* GET /api/chain
GetChain ==
  /\ pc = "idle"
  /\ response = NoResponse
  /\ response' = [ kind |-> "chain", chain |-> chain,
                   validation |-> Blockchain_validateChain(chain, difficulty) ]
  /\ UNCHANGED << difficulty, chain, pc, newBlock, tamperLog >>

\* the data POST /api/mine mines when the body has none
DefaultData(ts, rand) ==
  Obj(<< << KeyNote, Str(<< "m" >>) >>, << << "t", "s" >>, ts >>,
         << << "r", "a", "n", "d" >>, rand >> >>)

\* addBlockNew linking to the hash before the last block's
addBlockNewSkipLink(c, ts, data) ==
  LET latest == getLastBlock(c)
  IN NewBlock(PlusOne(latest.index), ts, data, latest.previousHash)

\* addBlockNew giving the new block the index of the last block
addBlockNewSameIndex(c, ts, data) ==
  LET latest == getLastBlock(c)
  IN NewBlock(latest.index, ts, data, latest.hash)

\* addBlock up to its call of proofOfWork
addBlockNew(c, ts, data) ==
  LET latest == getLastBlock(c)
  IN NewBlock(PlusOne(latest.index), ts, data, latest.hash)

\* POST /api/mine up to the call of proofOfWork in addBlock; the clock is
\* read twice within the request and gives the same value ts both times
PostMine ==
  /\ pc = "idle"
  /\ response = NoResponse
  /\ Len(chain) < MaxChain
  /\ \E bodyData \in BodyData, rand \in Rands, ts \in Timestamps :
       LET data == Coalesce(bodyData, DefaultData(ts, rand))
       IN newBlock' = addBlockNew(chain, ts, data)
  /\ pc' = "pow"
  /\ UNCHANGED << difficulty, chain, response, tamperLog >>

\* PowIterate leaving the nonce as it was
PowIterateNoInc ==
  /\ pc = "pow"
  /\ ~PowHit(newBlock, difficulty)
  /\ newBlock.nonce.n < MaxNonce
  /\ newBlock' = [ newBlock EXCEPT !.hash = computeHash(newBlock) ]
  /\ UNCHANGED << difficulty, chain, pc, response, tamperLog >>

\* a pass of the loop of proofOfWork that increments the nonce
PowIterate ==
  /\ pc = "pow"
  /\ ~PowHit(newBlock, difficulty)
  /\ newBlock.nonce.n < MaxNonce
  /\ newBlock' = PowMiss(newBlock)
  /\ UNCHANGED << difficulty, chain, pc, response, tamperLog >>

\* the pass of the loop that returns, the push of addBlock, and the rest of
\* POST /api/mine
PowReturn ==
  /\ pc = "pow"
  /\ PowHit(newBlock, difficulty)
  /\ \E mined \in { [ newBlock EXCEPT !.hash = computeHash(newBlock) ] } :
       \E validation \in { Blockchain_validateChain(Append(chain, mined), difficulty) } :
         /\ chain' = Append(chain, mined)
         /\ response' = [ kind |-> "mine", block |-> mined, validation |-> validation ]
  /\ pc' = "idle"
  /\ newBlock' = NoBlock
  /\ UNCHANGED << difficulty, tamperLog >>

Formats == { "json", "yaml", "txt" }

\* GET /api/download: every format is rendered from blockchain.chain
Download ==
  /\ pc = "idle"
  /\ response = NoResponse
  /\ \E format \in Formats :
       response' = [ kind |-> "download", format |-> format, chain |-> chain ]
  /\ UNCHANGED << difficulty, chain, pc, newBlock, tamperLog >>

\* ----------------------------------------------------------------- uploads
\* the record an uploaded JSON document holds for the block b
Canon(b) == [ isNull |-> FALSE, props |-> b ]

\* accepted spellings of the keys, one per field
AliasA ==
  [ index |-> "Index", timestamp |-> "Timestamp", data |-> "Data",
    previousHash |-> "prevHash", nonce |-> "Nonce", hash |-> "Hash" ]
AliasB ==
  [ index |-> "Index", timestamp |-> "time", data |-> "Data",
    previousHash |-> "previous_hash", nonce |-> "Nonce", hash |-> "HASH" ]
\* only the hash key is respelled
AliasH == [ f \in Fields |-> IF f = "hash" THEN "Hash" ELSE f ]
Canonical == [ f \in Fields |-> f ]

Spellings == { Canonical, AliasA, AliasB, AliasH }

\* the record for b with its keys spelled as sp spells them
Spelled(b, sp) ==
  [ isNull |-> FALSE,
    props |-> [ k \in { sp[f] : f \in Fields } |->
                  b[CHOOSE f \in Fields : sp[f] = k] ] ]

SpelledChain(c, sp) == [ i \in 1..Len(c) |-> Spelled(c[i], sp) ]

\* addBlock run to its return, as an operator
addBlock(c, ts, data, d) == Append(c, proofOfWork(addBlockNew(c, ts, data), d))

\* a chain mined by another run of the program, started at another time
ForeignChain(d) ==
  addBlock(<< creatGenBlock(Str(<< "T", "0" >>), d) >>,
           Str(<< "T", "1" >>), Str(<< "x" >>), d)

\* the record r with the property key removed, or set to the value v
Without(r, key) ==
  [ r EXCEPT !.props = [ k \in (DOMAIN r.props) \ { key } |-> r.props[k] ] ]
WithProp(r, key, v) == [ r EXCEPT !.props[key] = v ]
NullRecord == [ isNull |-> TRUE, props |-> << >> ]

\* changes made to one record of a chain before it is uploaded: other data,
\* no hash, a null entry, a hash that is an object with a toString property,
\* the index of the first block
Edited(r) ==
  { WithProp(r, "data", Str(<< "y" >>)),
    Without(r, "hash"),
    NullRecord,
    WithProp(r, "hash", Obj(<< << KeyToString, Num(1) >> >>)),
    WithProp(r, "index", Num(0)) }

\* the arrays of records that uploaded documents hold
Uploads(c, d) ==
  LET bases == { SpelledChain(c, sp) : sp \in Spellings }
               \cup { SpelledChain(ForeignChain(d), sp) : sp \in { Canonical, AliasA } }
      canon == SpelledChain(c, Canonical)
      edits == { [ canon EXCEPT ![i] = r ] : i \in { Len(canon) }, r \in Edited(canon[Len(canon)]) }
               \cup { [ canon EXCEPT ![1] = r ] : r \in Edited(canon[1]) }
  IN bases \cup edits \cup { << >> }

\* the labels of the lines of a section of the text format
Labels == { "Index", "Timestamp", "Previous Hash", "Hash", "Data", "Nonce" }

\* the section GET /api/download writes for the block b in the txt format:
\* the text after each label
TxtSection(b) ==
  [ l \in Labels |->
      CASE l = "Index" -> JsString(b.index)
        [] l = "Timestamp" -> JsString(b.timestamp)
        [] l = "Previous Hash" -> JsString(b.previousHash)
        [] l = "Hash" -> JsString(b.hash)
        [] l = "Data" -> IF b.data.t = "str" THEN b.data.s
                         ELSE JsString(JSONstringify(b.data))
        [] OTHER -> JsString(b.nonce) ]

TxtSections(c) == [ i \in 1..Len(c) |-> TxtSection(c[i]) ]

\* the section sec without the line of the label l
WithoutLine(sec, l) == [ k \in (DOMAIN sec) \ { l } |-> sec[k] ]

\* getLine(label) of parseUpChain on the section sec
getLine(sec, l) == IF l \in DOMAIN sec THEN Str(sec[l]) ELSE Undefined

\* the values whose JSON text the data lines of the model can hold
JsonValues ==
  { GenesisData } \cup { DefaultData(ts, rand) : ts \in Timestamps, rand \in Rands }

\* `dataVal = dataStr; try { dataVal = JSON.parse(dataStr) } catch (_) { }`
JSONparseOrKeep(dataStr) ==
  IF dataStr.t # "str" THEN dataStr
  ELSE IF IsDigitStr(dataStr.s) /\ (Len(dataStr.s) = 1 \/ dataStr.s[1] # "0")
    THEN Num(StrToNat(dataStr.s))
  ELSE IF dataStr.s = << "n", "u", "l", "l" >> THEN Null
  ELSE IF \E v \in JsonValues : JsonText(v) = dataStr.s
    THEN CHOOSE v \in JsonValues : JsonText(v) = dataStr.s
  ELSE dataStr

\* the record parseUpChain pushes for a section that has Index and Nonce
SectionBlock(sec) ==
  [ isNull |-> FALSE,
    props |-> [ index |-> ToNumber(getLine(sec, "Index")),
                timestamp |-> getLine(sec, "Timestamp"),
                previousHash |-> getLine(sec, "Previous Hash"),
                hash |-> getLine(sec, "Hash"),
                data |-> JSONparseOrKeep(getLine(sec, "Data")),
                nonce |-> ToNumber(getLine(sec, "Nonce")) ] ]

\* the loop of parseUpChain over the sections of a text
RECURSIVE SectionBlocks(_)
SectionBlocks(secs) ==
  IF Len(secs) = 0 THEN << >>
  ELSE (IF getLine(secs[1], "Index") = Undefined \/ getLine(secs[1], "Nonce") = Undefined
        THEN << >> ELSE << SectionBlock(secs[1]) >>)
       \o SectionBlocks(Tail(secs))

\* the texts uploaded: the txt download of the chain, the same with the
\* Index line of the last section or the Nonce line of every section
\* removed, and the empty file
Texts(c) ==
  LET secs == TxtSections(c)
  IN { secs,
       [ secs EXCEPT ![Len(secs)] = WithoutLine(@, "Index") ],
       [ i \in 1..Len(secs) |-> WithoutLine(secs[i], "Nonce") ],
       << >> }

\* an uploaded file: its content is a JSON or YAML array, an object with the
\* array under the key chain, or text that neither decoder accepts, read as
\* sections
Docs(c, d) ==
  { [ form |-> "array", records |-> up, sections |-> << >> ] : up \in Uploads(c, d) }
  \cup { [ form |-> "wrapped", records |-> up, sections |-> << >> ] :
            up \in { SpelledChain(c, Canonical), << >> } }
  \cup { [ form |-> "text", records |-> << >>, sections |-> secs ] : secs \in Texts(c) }

\* parseUpChain: the record { chain }, or a thrown error
parseUpChain(doc) ==
  IF doc.form \in { "array", "wrapped" } THEN [ ok |-> TRUE, chain |-> doc.records ]
  ELSE LET blocks == SectionBlocks(doc.sections)
       IN IF Len(blocks) > 0 THEN [ ok |-> TRUE, chain |-> blocks ]
          ELSE [ ok |-> FALSE, chain |-> << >> ]

\* POST /api/validate, without a file or with the file doc
PostValidate ==
  /\ pc = "idle"
  /\ response = NoResponse
  /\ \/ response' = [ kind |-> "error", status |-> 400, error |-> "No file uploaded" ]
     \/ \E doc \in Docs(chain, difficulty) :
          LET parsed == parseUpChain(doc)
          IN IF ~parsed.ok
             THEN response' = [ kind |-> "error", status |-> 400,
                                error |-> "Unsupported or malformed blockchain file" ]
             ELSE IF validateChainThrows(parsed.chain)
             THEN response' = [ kind |-> "error", status |-> 400,
                                error |-> "Cannot convert object to primitive value" ]
             ELSE response' = [ kind |-> "validate", difficulty |-> difficulty,
                                chain |-> parsed.chain,
                                validation |-> validateChain(parsed.chain, difficulty, chain) ]
  /\ UNCHANGED << difficulty, chain, pc, newBlock, tamperLog >>

\* the response leaves the server
Send ==
  /\ pc = "idle"
  /\ response # NoResponse
  /\ response' = NoResponse
  /\ UNCHANGED << difficulty, chain, pc, newBlock, tamperLog >>

\* ------------------------------------------------------------ browser views
\* a value as the browser reads it from the JSON of a response: NaN is
\* written as null
Wire(v) == IF v.t = "nan" THEN Null ELSE v

\* idxInfo.get(key) || {}: the Map built from the details keeps, for a key,
\* the last detail that has it; 0 stands for the empty object
idxInfoGet(details, key) ==
  LET hits == { i \in 1..Len(details) : Wire(details[i].index) = key }
  IN IF hits = { } THEN 0 ELSE CHOOSE i \in hits : \A j \in hits : j <= i

\* the loop of liveChain and of uploadResult from the position idx (counted
\* from 1) on: the isInvalid flag given to blockView for each block, and
\* whether reading b.index of a null entry threw
RECURSIVE ViewFrom(_, _, _, _)
ViewFrom(recs, details, idx, firstBad) ==
  IF idx > Len(recs) THEN [ threw |-> FALSE, marks |-> << >> ]
  ELSE IF recs[idx].isNull THEN [ threw |-> TRUE, marks |-> << >> ]
  ELSE LET at == idxInfoGet(details, Wire(Prop(recs[idx], "index")))
           blockValidFalse == at # 0 /\ ~details[at].blockValid
           cascadedTrue == at # 0 /\ details[at].cascaded
           anyFalse == at # 0 /\ (~details[at].isHashValid \/ ~details[at].isPrevValid
                                   \/ ~details[at].isPowValid)
           isInvalid == firstBad \/ blockValidFalse \/ cascadedTrue
           rest == ViewFrom(recs, details, idx + 1,
                            firstBad \/ blockValidFalse \/ cascadedTrue \/ anyFalse)
       IN [ threw |-> rest.threw, marks |-> << isInvalid >> \o rest.marks ]

\* liveChain(payload) and uploadResult(payload) for a payload with the
\* chain recs and the report validation
ViewMarks(recs, validation) == ViewFrom(recs, validation.details, 1, FALSE)

\* the records the browser reads for the blocks of a chain
CanonChain(c) == [ i \in 1..Len(c) |-> Canon(c[i]) ]

\* ------------------------------------------------------- outside changes
\* values an outside change gives the field f of the block b: integers for
\* index and nonce, strings for timestamp and hashes, JSON values for data
TamperValues(b, f) ==
  CASE f = "index" -> { Num(0), Num(7) }
    [] f = "timestamp" -> { Str(<< "T", "3" >>) }
    [] f = "data" -> { Str(<< "y" >>), Null }
    [] f = "previousHash" -> { Str(<< "0", "0", "0", "f", "x" >>) }
    [] f = "nonce" -> { Num(9) }
    [] OTHER -> { Str(<< "0", "0", "0", "f", "x" >>), Str(<< "a" >>) }

\* the one outside change of a behaviour: a field of one stored block is
\* overwritten in memory, without re-mining
Tamper ==
  /\ pc = "idle"
  /\ response = NoResponse
  /\ tamperLog = NoTamper
  /\ \E pos \in 1..Len(chain), f \in Fields :
       \E v \in TamperValues(chain[pos], f) \ { chain[pos][f] } :
         /\ chain' = [ chain EXCEPT ![pos][f] = v ]
         /\ tamperLog' = [ pos |-> pos, field |-> f, before |-> chain ]
  /\ UNCHANGED << difficulty, pc, newBlock, response >>

\* ----------------------------------------------------------- specifications
Next ==
  \/ GetChain
  \/ PostMine
  \/ PowIterate
  \/ PowReturn
  \/ Download
  \/ PostValidate
  \/ Send

\* the server alone
Spec == Init /\ [][Next]_vars

\* the chain and the handlers that mine and read it, with the loop of
\* proofOfWork running on: the loop is
\* synchronous code, each pass is followed by the next or by the return
NextMine ==
  \/ GetChain
  \/ PostMine
  \/ PowIterate
  \/ PowReturn
  \/ Send

SpecLive == Init /\ [][NextMine]_vars /\ WF_vars(PowIterate) /\ WF_vars(PowReturn)

NextTamper ==
  \/ GetChain
  \/ PostMine
  \/ PowIterate
  \/ PowReturn
  \/ Send
  \/ Tamper

\* the server, and stored blocks changed from outside
SpecTamper == Init /\ [][NextTamper]_vars

\* ------------------------------------------------------------------ claims
\* what Blockchain.validateChain returns for the live chain
LiveReport == Blockchain_validateChain(chain, difficulty)

\* C1: in every state of the server, a nonce search under way included, each
\* block of blockchain.chain holds the hash of its own fields and that hash
\* starts with `difficulty` zeros; the block being mined is not in the chain.
C1_ChainBlocksAreMined ==
  /\ \A i \in 1..Len(chain) :
       /\ StrictEq(chain[i].hash, computeHash(chain[i]))
       /\ StartsWith(chain[i].hash.s, Repeat0(difficulty))
  /\ pc = "pow" =>
       /\ newBlock.index = Num(Len(chain))
       /\ \A i \in 1..Len(chain) : chain[i] # newBlock

C1_Witness ==
  /\ pc = "pow"
  /\ difficulty = DefaultDifficulty
  /\ Len(chain) >= 2
  /\ newBlock.nonce.n >= 2
  /\ ~StartsWith(computeHash(newBlock).s, Repeat0(difficulty))

\* a report in which nothing is invalid, over n blocks
AllValid(r, n) ==
  /\ r.isValid
  /\ r.invalidBlockIndices = << >>
  /\ Len(r.details) = n
  /\ \A i \in 1..n : r.details[i].blockValid /\ ~r.details[i].cascaded

\* C2: for a chain made by the constructor and addBlock calls only,
\* validateChain() reports isValid, no invalid index, and every block valid
\* and not cascaded; GET /api/chain and POST /api/mine answer that report.
C2_MinedChainValidates ==
  LET r == LiveReport
  IN /\ AllValid(r, Len(chain))
     /\ response.kind \in { "chain", "mine" } => response.validation = r

C2_Witness ==
  /\ response.kind = "mine"
  /\ Len(chain) >= 3
  /\ difficulty = DefaultDifficulty
  /\ chain[3].data # chain[2].data

\* C5: the chain changes only when addBlock returns, which appends exactly
\* one block after the unchanged earlier ones, linked to the stored hash of
\* the block that was last; the other handlers leave chain and difficulty.
C5_AppendOnly ==
  [][ /\ difficulty' = difficulty
      /\ (pc = "pow" /\ pc' = "idle") => Len(chain') = Len(chain) + 1
      /\ chain' # chain =>
           /\ pc = "pow" /\ pc' = "idle"
           /\ Len(chain') = Len(chain) + 1
           /\ SubSeq(chain', 1, Len(chain)) = chain
           /\ chain'[Len(chain')].previousHash = chain[Len(chain)].hash
           /\ response'.kind = "mine"
      /\ response'.kind \in { "none", "chain", "download", "validate", "error" } =>
           chain' = chain ]_vars

C5_Witness ==
  /\ response.kind = "mine"
  /\ Len(chain) >= 3
  /\ response.block = chain[Len(chain)]
  /\ chain[Len(chain)].previousHash = chain[Len(chain) - 1].hash

\* C6: the chain is never empty, starts with index 0 and previousHash "0",
\* and each later block has the next index and the hash of its predecessor.
C6_ChainStructure ==
  /\ Len(chain) >= 1
  /\ chain[1].index = Num(0)
  /\ chain[1].previousHash = Str(<< "0" >>)
  /\ \A i \in 2..Len(chain) :
       /\ chain[i].index = Num(chain[i - 1].index.n + 1)
       /\ chain[i].previousHash = chain[i - 1].hash

C6_Witness ==
  /\ pc = "idle"
  /\ Len(chain) >= 3
  /\ chain[3].index = Num(2)

\* the outside change of the behaviour has been made
Tampered == tamperLog.pos # 0

\* C3: after one field of the stored block at position k of a valid chain is
\* given a different value without re-mining, validateChain() reports
\* isHashValid = false at k and cascaded = true at every later position.
C3_TamperDetected ==
  Tampered =>
    LET r == LiveReport
    IN /\ Len(r.details) = Len(chain)
       /\ ~r.details[tamperLog.pos].isHashValid
       /\ \A i \in (tamperLog.pos + 1)..Len(chain) : r.details[i].cascaded
       /\ response.kind \in { "chain", "mine" } => response.validation = r

C3_Witness ==
  /\ Tampered
  /\ response.kind = "chain"
  /\ tamperLog.field = "timestamp"
  /\ tamperLog.pos = 2
  /\ Len(chain) = 3
  /\ Len(tamperLog.before) = 3
  /\ Blockchain_validateChain(tamperLog.before, difficulty).isValid
  /\ chain[2].timestamp # tamperLog.before[2].timestamp

\* the state of Scenario C: a valid chain of three blocks in which the data
\* of block 1 alone has been replaced
ScenarioC ==
  /\ Tampered
  /\ tamperLog.pos = 2
  /\ tamperLog.field = "data"
  /\ Len(tamperLog.before) = 3
  /\ Len(chain) = 3

\* C4 as stated: in Scenario C validateChain() returns isValid = false and
\* invalidBlockIndices = [1], and block 2 is cascaded and not valid.
C4_ScenarioC_Original ==
  ScenarioC =>
    LET r == LiveReport
    IN /\ ~r.isValid
       /\ r.invalidBlockIndices = << Num(1) >>
       /\ r.details[3].cascaded
       /\ ~r.details[3].blockValid

\* C4 as amended: in Scenario C validateChain() returns isValid = false and
\* invalidBlockIndices = [1, 2], and block 2 is cascaded and not valid.
C4_ScenarioC_Amended ==
  ScenarioC =>
    LET r == LiveReport
    IN /\ ~r.isValid
       /\ r.invalidBlockIndices = << Num(1), Num(2) >>
       /\ r.details[3].cascaded
       /\ ~r.details[3].blockValid
       /\ response.kind = "chain" => response.validation = r

C4_Witness ==
  /\ ScenarioC
  /\ response.kind = "chain"
  /\ difficulty = DefaultDifficulty
  /\ chain[3] = tamperLog.before[3]
  /\ chain[2].data # tamperLog.before[2].data

\* the index values of the details that are not blockValid, in order
RECURSIVE InvalidIndices(_)
InvalidIndices(details) ==
  IF Len(details) = 0 THEN << >>
  ELSE (IF details[1].blockValid THEN << >> ELSE << details[1].index >>)
       \o InvalidIndices(Tail(details))

\* a report over n blocks whose parts agree
ReportConsistent(r, n) ==
  /\ Len(r.details) = n
  /\ r.invalidBlockIndices = InvalidIndices(r.details)
  /\ r.isValid <=> r.invalidBlockIndices = << >>

\* what validateChain returns for the live chain uploaded with the keys sp
UploadReport(sp) == validateChain(SpelledChain(chain, sp), difficulty, chain)

\* C7: in the report of either validator, for valid and changed chains,
\* details has one entry per block, invalidBlockIndices lists in order the
\* index of each detail that is not blockValid, and isValid holds exactly
\* when that list is empty.
C7_ReportConsistent ==
  LET r == LiveReport
      u == UploadReport(Canonical)
      a == UploadReport(AliasA)
  IN /\ ReportConsistent(r, Len(chain))
     /\ ReportConsistent(u, Len(chain))
     /\ ReportConsistent(a, Len(chain))
     /\ response.kind \in { "chain", "mine" } => response.validation = r

C7_Witness ==
  /\ Tampered
  /\ tamperLog.pos = 2
  /\ Len(chain) >= 3
  /\ response.kind = "mine"
  /\ Len(response.validation.invalidBlockIndices) >= 2
  /\ Len(UploadReport(Canonical).invalidBlockIndices) >= 2
  /\ UploadReport(Canonical).details[1].blockValid

\* the four checks of the shared algorithm pass at every position of r
OwnChecksPass(r) ==
  \A i \in 1..Len(r.details) :
    /\ r.details[i].isHashValid
    /\ r.details[i].isPowValid
    /\ r.details[i].isPrevValid
    /\ r.details[i].isIndexValid

\* the upload answered by the response starts with a hash that is not the
\* hash of the server's genesis block
ForeignGenesis ==
  /\ response.kind = "validate"
  /\ Len(response.chain) >= 1
  /\ Coerced(response.chain, 1).hashStr # chain[1].hash

\* C8: when the hash at position 0 of an upload differs from the hash of
\* the server's genesis block, the detail at position 0 has
\* matchesServerGenesis = false and blockValid = false; at every other
\* position matchesServerGenesis is true.
C8_GenesisMismatch ==
  response.kind = "validate" =>
    /\ Len(response.validation.details) = Len(response.chain)
    /\ ForeignGenesis =>
         /\ ~response.validation.details[1].matchesServerGenesis
         /\ ~response.validation.details[1].blockValid
    /\ \A i \in 2..Len(response.chain) :
         response.validation.details[i].matchesServerGenesis

C8_Witness ==
  /\ ForeignGenesis
  /\ Len(response.chain) >= 2
  /\ OwnChecksPass(response.validation)
  /\ ~response.validation.details[1].blockValid

\* C9 as stated: for an upload that passes the four checks everywhere and
\* starts with a foreign genesis hash, every block at a position >= 1 has
\* cascaded = false and blockValid = true.
C9_NoCascade_Original ==
  (ForeignGenesis /\ OwnChecksPass(response.validation)) =>
    \A i \in 2..Len(response.chain) :
      /\ ~response.validation.details[i].cascaded
      /\ response.validation.details[i].blockValid

\* C9 as amended: for such an upload matchesServerGenesis is false at
\* position 0 only, block 0 is not valid, and every block at a position
\* >= 1 has cascaded = true and blockValid = false.
C9_GenesisCascades ==
  (ForeignGenesis /\ OwnChecksPass(response.validation)) =>
    /\ ~response.validation.details[1].matchesServerGenesis
    /\ ~response.validation.details[1].blockValid
    /\ ~response.validation.details[1].cascaded
    /\ \A i \in 2..Len(response.chain) :
         /\ response.validation.details[i].matchesServerGenesis
         /\ response.validation.details[i].cascaded
         /\ ~response.validation.details[i].blockValid

C9_Witness ==
  /\ ForeignGenesis
  /\ OwnChecksPass(response.validation)
  /\ Len(response.chain) >= 2
  /\ difficulty = DefaultDifficulty

\* C10: a chain the validator accepts under the canonical keys gets the same
\* report when the keys of its records are respelled with accepted aliases:
\* isValid, and isPrevValid, isIndexValid and blockValid at every block.
C10_AliasTolerance ==
  \A sp \in Spellings :
    ( /\ response.kind = "validate"
      /\ response.chain = SpelledChain(chain, sp)
      /\ UploadReport(Canonical).isValid ) =>
        /\ response.validation = UploadReport(Canonical)
        /\ response.validation.isValid
        /\ \A i \in 1..Len(response.chain) :
             /\ response.validation.details[i].isPrevValid
             /\ response.validation.details[i].isIndexValid
             /\ response.validation.details[i].blockValid

\* the record at the position i of the upload up has no hash under any key
HashMissing(up, i) ==
  FirstOf(up[i], << "hash", "Hash", "HASH" >>).t \in { "null", "undef" }

\* no field of a record of up is an object with a toString property
Convertible(up) ==
  \A i \in 1..Len(up) : ~up[i].isNull =>
    \A k \in DOMAIN up[i].props : ~ToPrimitiveThrows(up[i].props[k])

C12_ZeroBlocksRejected ==
  response.kind = "validate" =>
    /\ Len(response.chain) >= 1
    /\ Len(response.validation.details) >= 1

\* C13: every nonce search that POST /api/mine starts ends, after finitely
\* many increments, with the mined block appended and answered, whatever the
\* data; at difficulty 0 the loop returns in its first pass, the nonce still
\* 0; the answer is always a block whose hash has the required zeros.
C13_MiningTerminates ==
  /\ (pc = "pow") ~> (pc = "idle" /\ response.kind = "mine")
  /\ [][(difficulty = 0 /\ pc = "pow") => (pc' = "idle" /\ response'.block.nonce = Num(0))]_vars
  /\ [](response.kind = "mine" =>
          /\ response.block = chain[Len(chain)]
          /\ response.block.nonce.t = "num"
          /\ response.block.hash = computeHash(response.block)
          /\ StartsWith(response.block.hash.s, Repeat0(difficulty)))

C13_Witness ==
  /\ response.kind = "mine"
  /\ difficulty = DefaultDifficulty
  /\ response.block.nonce.n >= 3
  /\ Len(chain) >= 2

\* the cascade rule in the report r
CascadeRule(r) ==
  \A i \in 1..Len(r.details) :
    /\ r.details[i].cascaded <=> \E j \in 1..(i - 1) : ~r.details[j].blockValid
    /\ r.details[i].cascaded => ~r.details[i].blockValid
    /\ (i > 1 /\ ~r.details[i - 1].blockValid) => ~r.details[i].blockValid

\* C15: in the report of either validator, for valid and changed chains, a
\* detail is cascaded exactly when the detail of an earlier position is not
\* blockValid; so after one block that is not valid no later block is
\* valid, and the blocks that are not valid form a suffix of the chain.
C15_CascadeRule ==
  LET r == LiveReport
      u == UploadReport(Canonical)
  IN /\ Len(r.details) = Len(chain) /\ CascadeRule(r)
     /\ Len(u.details) = Len(chain) /\ CascadeRule(u)

C15_Witness ==
  /\ Tampered
  /\ tamperLog.pos = 1
  /\ tamperLog.field = "hash"
  /\ Len(chain) = 3
  /\ LiveReport.details[2].cascaded
  /\ LiveReport.details[2].isHashValid
  /\ LiveReport.details[2].isPrevValid
  /\ LiveReport.details[3].cascaded
  /\ UploadReport(Canonical).details[3].cascaded

\* nonces proofOfWork is started with
StartNonces == 0..2

\* the block b with the nonce n
AtNonce(b, n) == [ b EXCEPT !.nonce = Num(n) ]

\* the least n >= n0 at which the hash of b has d leading zeros
LeastNonce(b, n0, d) ==
  CHOOSE n \in n0..(n0 + MaxNonce) :
    /\ PowHit(AtNonce(b, n), d)
    /\ \A m \in n0..(n - 1) : ~PowHit(AtNonce(b, m), d)

\* C16: proofOfWork started at the nonce n0 leaves the block with the least
\* nonce n >= n0 whose hash has `difficulty` leading zeros, with that hash
\* stored, and with index, timestamp, data and previousHash as they were;
\* the search of POST /api/mine, pass by pass, gives the same block.
C16_LeastNonce ==
  /\ \A i \in 1..Len(chain) : \A n0 \in StartNonces :
       LET b == chain[i]
           n == LeastNonce(b, n0, difficulty)
           out == proofOfWork(AtNonce(b, n0), difficulty)
       IN /\ out.nonce = Num(n)
          /\ out.hash = computeHash(AtNonce(b, n))
          /\ StartsWith(out.hash.s, Repeat0(difficulty))
          /\ out = [ AtNonce(b, n) EXCEPT !.hash = out.hash ]
          /\ n0 = 0 => out = b
  /\ pc = "pow" =>
       \A m \in 0..(newBlock.nonce.n - 1) : ~PowHit(AtNonce(newBlock, m), difficulty)
  /\ response.kind = "mine" =>
       response.block = proofOfWork(AtNonce(response.block, 0), difficulty)

C16_Witness ==
  /\ response.kind = "mine"
  /\ difficulty = DefaultDifficulty
  /\ chain[1].nonce.n >= 2
  /\ \E i \in 1..Len(chain) :
       proofOfWork(AtNonce(chain[i], 2), difficulty).nonce.n > chain[i].nonce.n

\* the detail d is invalid through the cascade alone
OnlyCascaded(d) ==
  /\ d.isHashValid /\ d.isPowValid /\ d.isPrevValid /\ d.isIndexValid
  /\ d.cascaded /\ ~d.blockValid

\* C17: after a field of the block at position k of a valid chain is
\* changed, k not the last position: if the field is the stored hash, block
\* k has isHashValid = false and block k+1 keeps isPrevValid = true, invalid
\* through cascaded alone; if it is another field, block k+1 has
\* isPrevValid = false.  Both validators report so.
C17_PrevFromFields ==
  (Tampered /\ tamperLog.pos < Len(tamperLog.before)) =>
    LET k == tamperLog.pos
        r == LiveReport
        u == UploadReport(Canonical)
    IN IF tamperLog.field = "hash"
       THEN /\ ~r.details[k].isHashValid /\ OnlyCascaded(r.details[k + 1])
            /\ ~u.details[k].isHashValid /\ OnlyCascaded(u.details[k + 1])
       ELSE /\ ~r.details[k + 1].isPrevValid
            /\ ~u.details[k + 1].isPrevValid

C17_Witness ==
  /\ Tampered
  /\ tamperLog.field = "hash"
  /\ tamperLog.pos = 2
  /\ Len(tamperLog.before) = 3
  /\ chain[2].hash # tamperLog.before[2].hash
  /\ chain[3].previousHash = tamperLog.before[2].hash
  /\ LiveReport.details[3].isPrevValid
  /\ UploadReport(Canonical).details[3].isPrevValid

\* the detail the external validator gives when it agrees with the detail d
\* of Blockchain.validateChain
WithGenesisMatch(d) ==
  [ index |-> d.index, isHashValid |-> d.isHashValid, isPowValid |-> d.isPowValid,
    isPrevValid |-> d.isPrevValid, isIndexValid |-> d.isIndexValid,
    matchesServerGenesis |-> TRUE, blockValid |-> d.blockValid,
    cascaded |-> d.cascaded ]

FirstInvalid(r) ==
  CHOOSE i \in 1..Len(r.details) :
    /\ ~r.details[i].blockValid
    /\ \A j \in 1..(i - 1) : r.details[j].blockValid

\* C19: in every state after a stored block was changed, whatever number
\* of blocks POST /api/mine has appended since, validateChain() reports the
\* chain invalid, the first invalid position is the changed one, and each
\* block appended since the change is reported cascaded and not valid.
C19_InvalidStaysInvalid ==
  Tampered =>
    LET r == LiveReport
    IN /\ ~r.isValid
       /\ FirstInvalid(r) = tamperLog.pos
       /\ \A i \in (Len(tamperLog.before) + 1)..Len(chain) :
            /\ r.details[i].cascaded
            /\ ~r.details[i].blockValid
       /\ response.kind = "mine" => response.validation = r

C19_Witness ==
  /\ Tampered
  /\ tamperLog.pos = 1
  /\ tamperLog.field = "hash"
  /\ Len(tamperLog.before) = 2
  /\ Len(chain) = 3
  /\ response.kind = "mine"
  /\ ~response.validation.isValid
  /\ response.validation.details[3].isPrevValid
  /\ response.validation.details[3].isHashValid
  /\ response.validation.details[3].cascaded

\* the view v marks exactly the blocks whose detail is not blockValid
MarksMatch(v, validation, n) ==
  /\ ~v.threw
  /\ Len(v.marks) = n
  /\ Len(validation.details) = n
  /\ \A p \in 1..n : v.marks[p] <=> ~validation.details[p].blockValid

\* C20: liveChain, for the answer of GET /api/chain, and uploadResult, for
\* the answer of POST /api/validate, mark the block at a position invalid
\* exactly when the detail of the report at that position is not
\* blockValid.
C20_ViewMatchesReport ==
  /\ response.kind = "chain" =>
       MarksMatch(ViewMarks(CanonChain(response.chain), response.validation),
                  response.validation, Len(response.chain))
  /\ response.kind = "validate" =>
       MarksMatch(ViewMarks(response.chain, response.validation),
                  response.validation, Len(response.chain))

====
